---- MODULE Spec2Model ----
(***************************************************************************)
(* Model of the transaction-replay engine of csv_payment_processor         *)
(* (src/src/main.rs): the fixed-point Amount arithmetic, the account       *)
(* table, the dispute list and process_transactions, one loop iteration    *)
(* per step.                                                               *)
(*                                                                         *)
(* An Option<T> of the source is a sequence of length at most one:         *)
(* <<>> is None and <<v>> is Some(v).  Vec indices are 1-based here.       *)
(***************************************************************************)
EXTENDS Integers, Sequences, FiniteSets, TLC

VARIABLES trs, i, result, disputes, pc, trace, cmp

vars == <<trs, i, result, disputes, pc, trace, cmp>>

(* ---------------------------------------------------------------------- *)
(* Bounds of the model.                                                    *)
(* ---------------------------------------------------------------------- *)
MaxLen == 3

MaxLenOne == 4

MaxLenFair == 2

MaxWholeCmp == 1

MaxLenHeld == 6

AMOUNT_PRECISION_LIMITER == 10000

U16 == 65536

(* ---------------------------------------------------------------------- *)
(* Amount                                                                  *)
(* ---------------------------------------------------------------------- *)
Amt(w, d) == [whole |-> w, decimal |-> d]

AmountDefault == Amt(0, 0)

AmountEq(a, b) == (a.whole = b.whole) /\ (a.decimal = b.decimal)

AmountNe(a, b) == (a.whole # b.whole) \/ (a.decimal # b.decimal)

\* a comparison that forgets equality
AmountGeStrict(a, b) ==
    \/ a.whole > b.whole
    \/ ((a.whole >= b.whole) /\ (a.decimal > b.decimal))

AmountGe(a, b) ==
    \/ AmountEq(a, b)
    \/ a.whole > b.whole
    \/ ((a.whole >= b.whole) /\ (a.decimal >= b.decimal))

AmountGt(a, b) ==
    \/ a.whole > b.whole
    \/ ((a.whole = b.whole) /\ (a.decimal > b.decimal))

\* a less-or-equal that compares field by field
AmountLeFieldwise(a, b) == (a.whole <= b.whole) /\ (a.decimal <= b.decimal)

AmountLe(a, b) ==
    \/ AmountEq(a, b)
    \/ a.whole < b.whole
    \/ ((a.whole <= b.whole) /\ (a.decimal <= b.decimal))

AmountLt(a, b) ==
    \/ a.whole < b.whole
    \/ ((a.whole = b.whole) /\ (a.decimal < b.decimal))

\* partial_cmp: "Equal", "Less" or "Greater"
AmountPartialCmp(a, b) ==
    IF AmountEq(a, b) THEN "Equal"
    ELSE IF AmountLt(a, b) THEN "Less"
    ELSE "Greater"

\* u16 + u16 of a release build (wrapping); a debug build panics instead when
\* AddOverflows holds.
AddOverflows(a, b) == a.decimal + b.decimal >= U16

\* an addition that never carries
AddNoCarry(a, b) == Amt(a.whole + b.whole, (a.decimal + b.decimal) % U16)

\* an addition that carries only above the scale constant
AddCarryAbove(a, b) ==
    LET w_add_res == a.whole + b.whole
        d_add_res == (a.decimal + b.decimal) % U16
    IN  IF d_add_res > AMOUNT_PRECISION_LIMITER
        THEN Amt(w_add_res + (d_add_res \div AMOUNT_PRECISION_LIMITER),
                 d_add_res % AMOUNT_PRECISION_LIMITER)
        ELSE Amt(w_add_res, d_add_res)

Add(a, b) ==
    LET w_add_res == a.whole + b.whole
        d_add_res == (a.decimal + b.decimal) % U16
    IN  IF d_add_res >= AMOUNT_PRECISION_LIMITER
        THEN Amt(w_add_res + (d_add_res \div AMOUNT_PRECISION_LIMITER),
                 d_add_res % AMOUNT_PRECISION_LIMITER)
        ELSE Amt(w_add_res, d_add_res)

Sub(a, b) ==
    LET w_sub_res == a.whole - b.whole
    IN  IF b.decimal > a.decimal
        THEN Amt(w_sub_res - 1, b.decimal - a.decimal)
        ELSE Amt(w_sub_res, a.decimal - b.decimal)

(* ---------------------------------------------------------------------- *)
(* Transaction, AccountStatus                                              *)
(* ---------------------------------------------------------------------- *)
TransactionType ==
    {"Deposit", "Withdraw", "Dispute", "Resolve", "Chargeback", "Invalid"}

Transaction(t, c, id, a) ==
    [tr_type |-> t, client_id |-> c, tr_id |-> id, amount |-> a]

AccountStatus(c, av, h, l) ==
    [client_id |-> c, available |-> av, held |-> h, locked |-> l]

total_amount(acc) == Add(acc.available, acc.held)

(* ---------------------------------------------------------------------- *)
(* Lookups                                                                 *)
(* ---------------------------------------------------------------------- *)
\* a lookup whose loop gives up after the first account
handle_account_first_only(id, statuses) ==
    IF Len(statuses) > 0 /\ statuses[1].client_id = id THEN <<1>> ELSE <<>>

\* Option<usize>: the index of the first account of client id
handle_account(id, statuses) ==
    LET hits == {k \in 1..Len(statuses) : statuses[k].client_id = id}
    IN  IF hits = {} THEN <<>>
        ELSE <<CHOOSE k \in hits : \A m \in hits : k <= m>>

\* a loop without the early return: the last transaction with that id
get_transaction_with_id_last(tr_id, transactions) ==
    LET hits == {k \in 1..Len(transactions) : transactions[k].tr_id = tr_id}
    IN  IF hits = {} THEN <<>>
        ELSE <<transactions[CHOOSE k \in hits : \A m \in hits : k >= m]>>

\* Option<&Transaction>: the first transaction of the vector with that id
get_transaction_with_id(tr_id, transactions) ==
    LET hits == {k \in 1..Len(transactions) : transactions[k].tr_id = tr_id}
    IN  IF hits = {} THEN <<>>
        ELSE <<transactions[CHOOSE k \in hits : \A m \in hits : k <= m]>>

\* a membership test that ignores the id
is_disputed_any(id, dis) == Len(dis) > 0

is_disputed_transaction(id, dis) == \E k \in 1..Len(dis) : dis[k] = id

\* a removal of the first occurrence only
remove_dispute_first(id, dis) ==
    LET hits == {k \in 1..Len(dis) : dis[k] = id}
    IN  IF hits = {} THEN dis
        ELSE LET p == CHOOSE k \in hits : \A m \in hits : k <= m
             IN  SubSeq(dis, 1, p - 1) \o SubSeq(dis, p + 1, Len(dis))

\* a retain with the predicate inverted
remove_dispute_inverted(id, dis) == SelectSeq(dis, LAMBDA e : e = id)

remove_dispute(id, dis) == SelectSeq(dis, LAMBDA e : e # id)

(* ---------------------------------------------------------------------- *)
(* Inputs: the vector handed to process_transactions.  Identifiers are     *)
(* only ever compared for equality, so the first record is taken to carry  *)
(* client 1 and transaction 1.  Fractions are below the limiter, as the    *)
(* parser leaves them.                                                     *)
(* ---------------------------------------------------------------------- *)
Clients == {1, 2}

TxIds == {1, 2}

None == <<>>

Some(v) == <<v>>

\* the amount column of a record of each kind
AmountOpts(t) ==
    CASE t = "Deposit" -> {None, Some(Amt(0, 7000)), Some(Amt(1, 5000))}
      [] t = "Withdraw" -> {None, Some(Amt(0, 7000))}
      [] t = "Dispute" -> {None, Some(Amt(0, 7000))}
      [] OTHER -> {None}

Records ==
    UNION {{Transaction(t, c, id, a) : a \in AmountOpts(t)} :
             t \in TransactionType, c \in Clients, id \in TxIds}

\* one client, every record with its amount column as a well-formed file
\* has it: a number on a deposit or withdrawal, empty (parsed as 0.0) or
\* missing on a dispute
AmountOptsOne(t) ==
    CASE t = "Deposit" -> {Some(Amt(0, 7000)), Some(Amt(1, 5000))}
      [] t = "Withdraw" -> {Some(Amt(0, 7000))}
      [] t = "Dispute" -> {None, Some(Amt(0, 0))}
      [] OTHER -> {None}

RecordsOne ==
    UNION {{Transaction(t, 1, id, a) : a \in AmountOptsOne(t)} :
             t \in TransactionType \ {"Invalid"}, id \in TxIds}
    \cup {Transaction("Invalid", 1, 1, None)}

\* one client and the five kinds that act on balances, amounts of 0.7000
RecordsHeld ==
    {Transaction(t, 1, id, Some(Amt(0, 7000))) : t \in {"Deposit", "Withdraw"}, id \in TxIds}
    \cup {Transaction(t, 1, id, None) :
            t \in {"Dispute", "Resolve", "Chargeback"}, id \in TxIds}

Canonical(s) == Len(s) > 0 => (s[1].client_id = 1 /\ s[1].tr_id = 1)

(* ---------------------------------------------------------------------- *)
(* process_transactions                                                    *)
(* ---------------------------------------------------------------------- *)
Snapshot(r, d, p) == [result |-> r, disputes |-> d, pc |-> p]

\* lines 248-249: the empty vectors, before the first record
Start ==
    /\ i = 0
    /\ result = <<>>
    /\ disputes = <<>>
    /\ pc = "run"
    /\ trace = <<Snapshot(<<>>, <<>>, "run")>>
    /\ cmp = <<>>

Init ==
    /\ \E n \in 0..MaxLen : trs \in [1..n -> Records]
    /\ Canonical(trs)
    /\ Start

InitOne ==
    /\ \E n \in 0..MaxLenOne : trs \in [1..n -> RecordsOne]
    /\ Canonical(trs)
    /\ Start

\* the inputs of the runs checked for termination
InitFair ==
    /\ \E n \in 0..MaxLenFair : trs \in [1..n -> Records]
    /\ Canonical(trs)
    /\ Start

InitHeld ==
    /\ \E n \in 0..MaxLenHeld : trs \in [1..n -> RecordsHeld]
    /\ Canonical(trs)
    /\ Start

\* the record of this iteration
tr == trs[i + 1]

\* lines 251-259: the account vector after the lookup-or-push
Located ==
    IF handle_account(tr.client_id, result) = <<>>
    THEN Append(result,
                AccountStatus(tr.client_id, AmountDefault, AmountDefault, FALSE))
    ELSE result

index ==
    IF handle_account(tr.client_id, result) = <<>>
    THEN Len(result) + 1
    ELSE handle_account(tr.client_id, result)[1]

el == Located[index]

\* one iteration ends: the vectors, the position, the history
Finish(r, d, p) ==
    /\ result' = r
    /\ disputes' = d
    /\ pc' = p
    /\ i' = i + 1
    /\ trace' = Append(trace, Snapshot(r, d, p))
    /\ UNCHANGED <<trs, cmp>>

Iterating == pc = "run" /\ i < Len(trs)

\* a deposit arm without the lock gate
DepositUngated ==
    /\ Iterating
    /\ tr.tr_type = "Deposit"
    /\ IF tr.amount = <<>>
       THEN Finish(Located, disputes, "panic")
       ELSE Finish([Located EXCEPT ![index].available = Add(el.available, tr.amount[1])],
                   disputes, "run")

Deposit ==
    /\ Iterating
    /\ tr.tr_type = "Deposit"
    /\ IF el.locked
       THEN Finish(Located, disputes, "run")
       ELSE IF tr.amount = <<>>
       THEN Finish(Located, disputes, "panic")
       ELSE Finish([Located EXCEPT ![index].available = Add(el.available, tr.amount[1])],
                   disputes, "run")

\* a withdraw arm that skips a record without an amount
WithdrawLenient ==
    /\ Iterating
    /\ tr.tr_type = "Withdraw"
    /\ IF el.locked \/ tr.amount = <<>>
       THEN Finish(Located, disputes, "run")
       ELSE IF AmountGe(Sub(el.available, tr.amount[1]), AmountDefault)
       THEN Finish([Located EXCEPT ![index].available = Sub(el.available, tr.amount[1])],
                   disputes, "run")
       ELSE Finish(Located, disputes, "run")

Withdraw ==
    /\ Iterating
    /\ tr.tr_type = "Withdraw"
    /\ IF el.locked
       THEN Finish(Located, disputes, "run")
       ELSE IF tr.amount = <<>>
       THEN Finish(Located, disputes, "panic")
       ELSE IF AmountGe(Sub(el.available, tr.amount[1]), AmountDefault)
       THEN Finish([Located EXCEPT ![index].available = Sub(el.available, tr.amount[1])],
                   disputes, "run")
       ELSE Finish(Located, disputes, "run")

\* The lookups are handed the whole input vector trs, not the processed prefix.
candidate_tr == get_transaction_with_id(tr.tr_id, trs)

c_tr == candidate_tr[1]

\* a dispute arm that moves the funds of the client that owns the referenced
\* transaction
owner == handle_account(c_tr.client_id, Located)[1]

DisputeOwner ==
    /\ Iterating
    /\ tr.tr_type = "Dispute"
    /\ IF el.locked \/ candidate_tr = <<>>
       THEN Finish(Located, disputes, "run")
       ELSE IF c_tr.amount = <<>>
       THEN Finish(Located, Append(disputes, c_tr.tr_id), "panic")
       ELSE Finish([Located EXCEPT
                       ![owner].available = Sub(Located[owner].available, c_tr.amount[1]),
                       ![owner].held = Add(Located[owner].held, c_tr.amount[1])],
                   Append(disputes, c_tr.tr_id), "run")

Dispute ==
    /\ Iterating
    /\ tr.tr_type = "Dispute"
    /\ IF el.locked \/ candidate_tr = <<>>
       THEN Finish(Located, disputes, "run")
       ELSE IF c_tr.amount = <<>>
       THEN Finish(Located, Append(disputes, c_tr.tr_id), "panic")
       ELSE Finish([Located EXCEPT
                       ![index].available = Sub(el.available, c_tr.amount[1]),
                       ![index].held = Add(el.held, c_tr.amount[1])],
                   Append(disputes, c_tr.tr_id), "run")

Resolve ==
    /\ Iterating
    /\ tr.tr_type = "Resolve"
    /\ IF el.locked \/ candidate_tr = <<>>
       THEN Finish(Located, disputes, "run")
       ELSE IF ~is_disputed_transaction(c_tr.tr_id, disputes)
       THEN Finish(Located, disputes, "run")
       ELSE IF c_tr.amount = <<>>
       THEN Finish(Located, disputes, "panic")
       ELSE Finish([Located EXCEPT
                       ![index].available = Add(el.available, c_tr.amount[1]),
                       ![index].held = Sub(el.held, c_tr.amount[1])],
                   remove_dispute(c_tr.tr_id, disputes), "run")

\* a chargeback arm that also credits available, as the resolve arm does
ChargebackCredits ==
    /\ Iterating
    /\ tr.tr_type = "Chargeback"
    /\ IF el.locked \/ candidate_tr = <<>>
       THEN Finish(Located, disputes, "run")
       ELSE IF ~is_disputed_transaction(c_tr.tr_id, disputes)
       THEN Finish(Located, disputes, "run")
       ELSE IF c_tr.amount = <<>>
       THEN Finish(Located, disputes, "panic")
       ELSE Finish([Located EXCEPT
                       ![index].available = Add(el.available, c_tr.amount[1]),
                       ![index].held = Sub(el.held, c_tr.amount[1]),
                       ![index].locked = TRUE],
                   remove_dispute(c_tr.tr_id, disputes), "run")

Chargeback ==
    /\ Iterating
    /\ tr.tr_type = "Chargeback"
    /\ IF el.locked \/ candidate_tr = <<>>
       THEN Finish(Located, disputes, "run")
       ELSE IF ~is_disputed_transaction(c_tr.tr_id, disputes)
       THEN Finish(Located, disputes, "run")
       ELSE IF c_tr.amount = <<>>
       THEN Finish(Located, disputes, "panic")
       ELSE Finish([Located EXCEPT
                       ![index].held = Sub(el.held, c_tr.amount[1]),
                       ![index].locked = TRUE],
                   remove_dispute(c_tr.tr_id, disputes), "run")

\* an invalid arm that panics instead of printing
InvalidAborts ==
    /\ Iterating
    /\ tr.tr_type = "Invalid"
    /\ Finish(Located, disputes, "panic")

Invalid ==
    /\ Iterating
    /\ tr.tr_type = "Invalid"
    /\ Finish(Located, disputes, "run")

\* a return placed inside the loop
ReturnEarly ==
    /\ pc = "run"
    /\ i <= Len(trs)
    /\ pc' = "done"
    /\ UNCHANGED <<trs, i, result, disputes, trace, cmp>>

\* line 324: the loop is over, the account vector is returned
Return ==
    /\ pc = "run"
    /\ i = Len(trs)
    /\ pc' = "done"
    /\ UNCHANGED <<trs, i, result, disputes, trace, cmp>>

Next ==
    \/ Deposit
    \/ Withdraw
    \/ Dispute
    \/ Resolve
    \/ Chargeback
    \/ Invalid
    \/ Return

Spec == Init /\ [][Next]_vars

SpecOne == InitOne /\ [][Next]_vars

\* the pass over inputs without Invalid records
NextHeld ==
    \/ Deposit
    \/ Withdraw
    \/ Dispute
    \/ Resolve
    \/ Chargeback
    \/ Return

SpecHeld == InitHeld /\ [][NextHeld]_vars

(* ---------------------------------------------------------------------- *)
(* The comparison operators of Amount, applied to one pair of operands.   *)
(* ---------------------------------------------------------------------- *)
WholesCmp == (0 - MaxWholeCmp)..MaxWholeCmp

\* fractions a u16 can hold: the ends, the middle, and the limiter's neighbours
FractionsCmp == {0, 1, 5000, 9999, U16 - 1}

AmountsCmp == {Amt(w, d) : w \in WholesCmp, d \in FractionsCmp}

InitCmp ==
    /\ cmp \in {[lhs |-> a, rhs |-> b, out |-> <<>>] : a \in AmountsCmp, b \in AmountsCmp}
    /\ trs = <<>>
    /\ i = 0
    /\ result = <<>>
    /\ disputes = <<>>
    /\ pc = "cmp"
    /\ trace = <<>>

Compare ==
    /\ pc = "cmp"
    /\ cmp' = [cmp EXCEPT !.out =
                 <<[eq |-> AmountEq(cmp.lhs, cmp.rhs),
                    ne |-> AmountNe(cmp.lhs, cmp.rhs),
                    lt |-> AmountLt(cmp.lhs, cmp.rhs),
                    le |-> AmountLe(cmp.lhs, cmp.rhs),
                    gt |-> AmountGt(cmp.lhs, cmp.rhs),
                    ge |-> AmountGe(cmp.lhs, cmp.rhs),
                    partial_cmp |-> AmountPartialCmp(cmp.lhs, cmp.rhs)]>>]
    /\ pc' = "compared"
    /\ UNCHANGED <<trs, i, result, disputes, trace>>

NextCmp == Compare

SpecCmp == InitCmp /\ [][NextCmp]_vars

\* The pass is one sequential loop with nothing to wait for: a step that can
\* be taken is taken.
SpecFair == InitFair /\ [][Next]_vars /\ WF_vars(Next)

(* ---------------------------------------------------------------------- *)
(* Vocabulary of the properties.  trace[k] is the state before the k-th   *)
(* record and trace[k + 1] the state after it.                            *)
(* ---------------------------------------------------------------------- *)
Pre(k) == trace[k]

Post(k) == trace[k + 1]

\* the balances and lock of client c in an account vector; a client with no
\* account yet has those of a fresh account
Balances(r, c) ==
    LET hits == {k \in 1..Len(r) : r[k].client_id = c}
    IN  IF hits = {}
        THEN [available |-> Amt(0, 0), held |-> Amt(0, 0), locked |-> FALSE]
        ELSE LET a == r[CHOOSE k \in hits : \A m \in hits : k <= m]
             IN  [available |-> a.available, held |-> a.held, locked |-> a.locked]

BalBefore(k) == Balances(Pre(k).result, trs[k].client_id)

BalAfter(k) == Balances(Post(k).result, trs[k].client_id)

\* the k-th record changed no account's balances or lock
SameAccounts(k) ==
    \A c \in Clients : Balances(Post(k).result, c) = Balances(Pre(k).result, c)

InTracker(id, dis) == \E n \in 1..Len(dis) : dis[n] = id

\* the record a reference to id resolves to: the first record carrying id
Referenced(id) == trs[CHOOSE k \in 1..Len(trs) :
                        trs[k].tr_id = id /\ \A m \in 1..(k - 1) : trs[m].tr_id # id]

KnownBefore(k) == \E m \in 1..(k - 1) : trs[m].tr_id = trs[k].tr_id

\* subtraction and addition as section 4.1 of the specification states them
Minus(a, b) ==
    IF b.decimal > a.decimal
    THEN [whole |-> a.whole - b.whole - 1, decimal |-> b.decimal - a.decimal]
    ELSE [whole |-> a.whole - b.whole, decimal |-> a.decimal - b.decimal]

Plus(a, b) ==
    [whole |-> a.whole + b.whole + ((a.decimal + b.decimal) \div 10000),
     decimal |-> (a.decimal + b.decimal) % 10000]

(* ---------------------------------------------------------------------- *)
(* C1.  Lock is terminal: once an account is locked, no later record of   *)
(* any kind and any client changes its available, held or locked, and     *)
(* locked stays true.                                                     *)
(* ---------------------------------------------------------------------- *)
C1_LockIsTerminal ==
    \A k \in 1..i : \A c \in Clients :
        Balances(Pre(k).result, c).locked =>
            Balances(Post(k).result, c) = Balances(Pre(k).result, c)

\* a deposit with an amount reached a locked account
C1_Witness ==
    \E k \in 1..i :
        /\ trs[k].tr_type = "Deposit"
        /\ trs[k].amount # None
        /\ BalBefore(k).locked
        /\ Post(k).pc = "run"

(* ---------------------------------------------------------------------- *)
(* C2.  A Dispute that takes effect (account unlocked, referenced record  *)
(* found with an amount) leaves the account's total, available + held,    *)
(* as it was before the Dispute.                                          *)
(* ---------------------------------------------------------------------- *)
\* the plain case: the client disputes a deposit of its own, recorded earlier
DisputeTakesEffect(k) ==
    /\ trs[k].tr_type = "Dispute"
    /\ ~BalBefore(k).locked
    /\ KnownBefore(k)
    /\ Referenced(trs[k].tr_id).tr_type = "Deposit"
    /\ Referenced(trs[k].tr_id).client_id = trs[k].client_id
    /\ Referenced(trs[k].tr_id).amount # None
    /\ Post(k).pc = "run"

\* C2: an effective Dispute leaves available + held unchanged
C2_DisputeKeepsTotal ==
    \A k \in 1..i :
        DisputeTakesEffect(k) =>
            Plus(BalAfter(k).available, BalAfter(k).held)
                = Plus(BalBefore(k).available, BalBefore(k).held)

(* ---------------------------------------------------------------------- *)
(* C3.  Dispute(T) immediately followed by Resolve(T) of the same client  *)
(* returns available and held to their values before the Dispute.         *)
(* ---------------------------------------------------------------------- *)
C3_ResolveReversesDispute ==
    \A k \in 1..(i - 1) :
        ( /\ DisputeTakesEffect(k)
          /\ trs[k + 1].tr_type = "Resolve"
          /\ trs[k + 1].client_id = trs[k].client_id
          /\ trs[k + 1].tr_id = trs[k].tr_id )
        => /\ BalAfter(k + 1).available = BalBefore(k).available
           /\ BalAfter(k + 1).held = BalBefore(k).held

(* ---------------------------------------------------------------------- *)
(* C4.  A Chargeback of an unlocked account whose tx_id is in the dispute *)
(* tracker subtracts the referenced amount from held, locks the account,  *)
(* removes the tx_id from the tracker and leaves available alone; a       *)
(* Chargeback whose tx_id is not in the tracker changes no balances, no   *)
(* lock and not the tracker.                                              *)
(* ---------------------------------------------------------------------- *)
C4_Chargeback ==
    \A k \in 1..i :
        trs[k].tr_type = "Chargeback" =>
            IF InTracker(trs[k].tr_id, Pre(k).disputes)
            THEN ~BalBefore(k).locked =>
                   /\ Post(k).pc = "run"
                   /\ BalAfter(k).held =
                        Minus(BalBefore(k).held, Referenced(trs[k].tr_id).amount[1])
                   /\ BalAfter(k).locked
                   /\ BalAfter(k).available = BalBefore(k).available
                   /\ ~InTracker(trs[k].tr_id, Post(k).disputes)
                   /\ \A c \in Clients \ {trs[k].client_id} :
                        Balances(Post(k).result, c) = Balances(Pre(k).result, c)
            ELSE /\ Post(k).pc = "run"
                 /\ SameAccounts(k)
                 /\ Post(k).disputes = Pre(k).disputes

\* a chargeback took a non-zero disputed amount out of held and locked
C4_Witness ==
    \E k \in 1..i :
        /\ trs[k].tr_type = "Chargeback"
        /\ InTracker(trs[k].tr_id, Pre(k).disputes)
        /\ ~BalBefore(k).locked
        /\ BalAfter(k).locked
        /\ BalAfter(k).held # BalBefore(k).held

(* ---------------------------------------------------------------------- *)
(* C5.  A Withdraw with an amount larger than the account's available     *)
(* balance changes nothing and does not abort the run; otherwise          *)
(* available becomes available - amount.  As amended: the second half     *)
(* holds of an account that is not locked.                                *)
(* ---------------------------------------------------------------------- *)
Exceeds(a, b) ==
    \/ a.whole > b.whole
    \/ (a.whole = b.whole /\ a.decimal > b.decimal)

WithdrawOf(k) == trs[k].tr_type = "Withdraw" /\ trs[k].amount # None

Refused(k) ==
    /\ Post(k).pc = "run"
    /\ SameAccounts(k)

Withdrawn(k) ==
    /\ Post(k).pc = "run"
    /\ BalAfter(k).available = Minus(BalBefore(k).available, trs[k].amount[1])
    /\ BalAfter(k).held = BalBefore(k).held
    /\ BalAfter(k).locked = BalBefore(k).locked

\* C5 as written: a Withdraw is refused when the amount exceeds available and
\* applied otherwise, whatever the lock
C5_WithdrawAsWritten ==
    \A k \in 1..i :
        WithdrawOf(k) =>
            IF Exceeds(trs[k].amount[1], BalBefore(k).available)
            THEN Refused(k)
            ELSE Withdrawn(k)

\* C5 as amended: a Withdraw is refused when the amount exceeds available or
\* the account is locked, and applied otherwise
C5_WithdrawUnlocked ==
    \A k \in 1..i :
        WithdrawOf(k) =>
            IF Exceeds(trs[k].amount[1], BalBefore(k).available) \/ BalBefore(k).locked
            THEN Refused(k)
            ELSE Withdrawn(k)

\* both halves happened in one run: a withdrawal applied with a borrow, then
\* one refused for lack of funds
C5_Witness ==
    \E j, k \in 1..i :
        /\ WithdrawOf(j) /\ WithdrawOf(k)
        /\ ~BalBefore(j).locked /\ ~BalBefore(k).locked
        /\ ~Exceeds(trs[j].amount[1], BalBefore(j).available)
        /\ trs[j].amount[1].decimal > BalBefore(j).available.decimal
        /\ Exceeds(trs[k].amount[1], BalBefore(k).available)

(* ---------------------------------------------------------------------- *)
(* C6.  A Dispute whose tx_id matches no earlier record, or whose         *)
(* referenced record carries no amount, is silently ignored: the run does *)
(* not abort, no account changes and the tracker is not extended.         *)
(* ---------------------------------------------------------------------- *)
C6_UnmatchedDisputeIgnored ==
    \A k \in 1..i :
        ( /\ trs[k].tr_type = "Dispute"
          /\ (~KnownBefore(k) \/ Referenced(trs[k].tr_id).amount = None) )
        => /\ Post(k).pc = "run"
           /\ SameAccounts(k)
           /\ Post(k).disputes = Pre(k).disputes

(* ---------------------------------------------------------------------- *)
(* C7.  A Resolve whose tx_id is unknown or not in the dispute tracker is *)
(* a no-op: no account and not the tracker changes, the run goes on.      *)
(* ---------------------------------------------------------------------- *)
C7_ResolveNoOp ==
    \A k \in 1..i :
        ( /\ trs[k].tr_type = "Resolve"
          /\ (~KnownBefore(k) \/ ~InTracker(trs[k].tr_id, Pre(k).disputes)) )
        => /\ Post(k).pc = "run"
           /\ SameAccounts(k)
           /\ Post(k).disputes = Pre(k).disputes

\* an unlocked client resolves an earlier deposit that is not under dispute
C7_Witness ==
    \E k \in 1..i :
        /\ trs[k].tr_type = "Resolve"
        /\ ~BalBefore(k).locked
        /\ KnownBefore(k)
        /\ Referenced(trs[k].tr_id).tr_type = "Deposit"
        /\ Referenced(trs[k].tr_id).amount # None
        /\ ~InTracker(trs[k].tr_id, Pre(k).disputes)

(* ---------------------------------------------------------------------- *)
(* C8.  Closing a dispute is idempotent: after a Resolve or Chargeback    *)
(* took effect for a tx_id, a second Resolve or Chargeback of that tx_id  *)
(* by any client, with no Dispute of it in between, changes no account    *)
(* and not the tracker.                                                   *)
(* ---------------------------------------------------------------------- *)
Closes(k) == trs[k].tr_type \in {"Resolve", "Chargeback"}

TookEffect(j) ==
    /\ Closes(j)
    /\ InTracker(trs[j].tr_id, Pre(j).disputes)
    /\ ~BalBefore(j).locked
    /\ Post(j).pc = "run"

Replays(j, k) ==
    /\ j < k
    /\ TookEffect(j)
    /\ Closes(k)
    /\ trs[k].tr_id = trs[j].tr_id
    /\ \A m \in (j + 1)..(k - 1) :
          ~(trs[m].tr_type = "Dispute" /\ trs[m].tr_id = trs[j].tr_id)

\* C8: a replayed Resolve or Chargeback changes no account and not the tracker
C8_ClosureIdempotent ==
    \A j, k \in 1..i :
        Replays(j, k) =>
            /\ Post(k).pc = "run"
            /\ SameAccounts(k)
            /\ Post(k).disputes = Pre(k).disputes

\* the replay reaches an account that is not locked
C8_Witness ==
    \E j, k \in 1..i :
        /\ Replays(j, k)
        /\ ~BalBefore(k).locked
        /\ BalAfter(j) # BalBefore(j)

(* ---------------------------------------------------------------------- *)
(* C9.  When the input is only Deposit records of one client, available   *)
(* is the sum of the amounts deposited so far (fractions carried into     *)
(* the whole part at 10000), held is 0.0 and the account is not locked.   *)
(* ---------------------------------------------------------------------- *)
OnlyDeposits ==
    /\ Len(trs) > 0
    /\ \A k \in 1..Len(trs) :
          /\ trs[k].tr_type = "Deposit"
          /\ trs[k].client_id = trs[1].client_id
          /\ trs[k].amount # None

RECURSIVE SumUnits(_)
SumUnits(n) ==
    IF n = 0 THEN 0
    ELSE SumUnits(n - 1) + trs[n].amount[1].whole * 10000 + trs[n].amount[1].decimal

FromUnits(u) == [whole |-> u \div 10000, decimal |-> u % 10000]

\* C9: with deposits only, available is the carried sum, held 0.0, unlocked
C9_DepositsSum ==
    (OnlyDeposits /\ i > 0) =>
        /\ pc # "panic"
        /\ Len(result) = 1
        /\ result[1].available = FromUnits(SumUnits(i))
        /\ result[1].held = Amt(0, 0)
        /\ ~result[1].locked

\* the run is over and a fraction was carried
C9_Witness ==
    /\ OnlyDeposits
    /\ pc = "done"
    /\ Len(trs) >= 2
    /\ result[1].available.decimal < trs[1].amount[1].decimal

(* ---------------------------------------------------------------------- *)
(* C10.  The account vector holds exactly one account per distinct        *)
(* client_id seen so far, in first-seen order; an account starts with     *)
(* available = held = 0.0 and unlocked; none is removed or moved.         *)
(* ---------------------------------------------------------------------- *)
RECURSIVE FirstSeen(_)
FirstSeen(n) ==
    IF n = 0 THEN <<>>
    ELSE LET before == FirstSeen(n - 1)
         IN  IF \E m \in 1..Len(before) : before[m] = trs[n].client_id
             THEN before
             ELSE Append(before, trs[n].client_id)

Ids(r) == [k \in 1..Len(r) |-> r[k].client_id]

NewClient(k) == \A m \in 1..Len(Pre(k).result) : Pre(k).result[m].client_id # trs[k].client_id

\* C10: one account per client seen, in first-seen order, created zeroed,
\* never removed or moved
C10_Accounts ==
    /\ Ids(result) = FirstSeen(i)
    /\ \A k \in 1..i :
          /\ Len(Pre(k).result) <= Len(Post(k).result)
          /\ \A m \in 1..Len(Pre(k).result) :
                Post(k).result[m].client_id = Pre(k).result[m].client_id
          /\ (NewClient(k) /\ trs[k].tr_type = "Invalid") =>
                BalAfter(k) = [available |-> Amt(0, 0), held |-> Amt(0, 0), locked |-> FALSE]
          /\ (NewClient(k) /\ trs[k].tr_type = "Deposit" /\ trs[k].amount # None) =>
                BalAfter(k) = [available |-> trs[k].amount[1], held |-> Amt(0, 0),
                               locked |-> FALSE]

\* two accounts, and a client that already had one came again
C10_Witness ==
    /\ Len(result) = 2
    /\ \E k \in 1..i : ~NewClient(k)
    /\ \E k \in 1..i : NewClient(k) /\ trs[k].tr_type = "Invalid"

(* ---------------------------------------------------------------------- *)
(* C11.  Termination: every finite input is consumed record by record in  *)
(* input order and the pass ends.  As written: it always ends by          *)
(* returning the account vector, never aborted.  As amended: it ends      *)
(* either returned, every record consumed, or aborted at a record that    *)
(* needs an amount that is absent.                                        *)
(* ---------------------------------------------------------------------- *)
\* why the record just consumed aborted the run
AbortCause ==
    /\ i >= 1
    /\ ~BalBefore(i).locked
    /\ \/ trs[i].tr_type \in {"Deposit", "Withdraw"} /\ trs[i].amount = None
       \/ trs[i].tr_type = "Dispute" /\ Referenced(trs[i].tr_id).amount = None

\* C11 as written, for the records that carry their own amount: no run is
\* aborted at a Deposit or Withdraw
C11_NeverAborts ==
    ~(pc = "panic" /\ trs[i].tr_type \in {"Deposit", "Withdraw"})

\* C11 as amended: the pass ends, returned after the last record or aborted
\* for a missing amount, and consumes one record per step
C11_Terminates ==
    /\ <>(pc \in {"done", "panic"})
    /\ [](pc = "done" => (i = Len(trs) /\ Len(trace) = Len(trs) + 1))
    /\ [](pc = "panic" => AbortCause)
    /\ [][(i' = i + 1 /\ pc = "run") \/ (i' = i /\ pc' = "done")]_vars

\* a run of two records returned
C11_Witness == pc = "done" /\ i = 2 /\ Len(result) = 2

(* ---------------------------------------------------------------------- *)
(* C12.  A Deposit or Withdraw record without an amount is fatal: the run *)
(* aborts and no account vector is returned.  As amended: so it is for an *)
(* account that is not locked; a locked account ignores the record.       *)
(* ---------------------------------------------------------------------- *)
MissingAmount(k) ==
    trs[k].tr_type \in {"Deposit", "Withdraw"} /\ trs[k].amount = None

\* an aborted run consumes nothing more and never returns
AbortIsFinal ==
    \A k \in 1..i : Post(k).pc = "panic" => (k = i /\ pc = "panic")

\* C12 as written: the record aborts the run, whatever the lock
C12_MissingAmountFatal ==
    \A k \in 1..i : MissingAmount(k) => Post(k).pc = "panic"

\* C12 as amended: the record aborts the run unless its account is locked,
\* and then it changes nothing
C12_MissingAmountUnlocked ==
    /\ AbortIsFinal
    /\ \A k \in 1..i :
          MissingAmount(k) =>
              IF BalBefore(k).locked
              THEN /\ Post(k).pc = "run"
                   /\ SameAccounts(k)
                   /\ Post(k).disputes = Pre(k).disputes
              ELSE Post(k).pc = "panic"

\* a withdrawal without an amount aborted a run that had an account with funds
C12_Witness ==
    \E k \in 2..i :
        /\ MissingAmount(k)
        /\ trs[k].tr_type = "Withdraw"
        /\ BalBefore(k).available # Amt(0, 0)
        /\ pc = "panic"

(* ---------------------------------------------------------------------- *)
(* C13.  A record of kind Invalid changes no account's available, held or *)
(* locked and not the dispute tracker, and the pass goes on with the next *)
(* record.                                                                *)
(* ---------------------------------------------------------------------- *)
C13_InvalidIgnored ==
    \A k \in 1..i :
        trs[k].tr_type = "Invalid" =>
            /\ Post(k).pc = "run"
            /\ SameAccounts(k)
            /\ Post(k).disputes = Pre(k).disputes
            /\ Len(Post(k).result) >= Len(Pre(k).result)

\* an Invalid record met a non-empty tracker and funds, and the record after
\* it was processed
C13_Witness ==
    \E k \in 1..(i - 1) :
        /\ trs[k].tr_type = "Invalid"
        /\ Pre(k).disputes # <<>>
        /\ BalBefore(k).held # Amt(0, 0)

(* ---------------------------------------------------------------------- *)
(* C14.  A Dispute, Resolve or Chargeback at input position k that looks  *)
(* up its tx_id obtains a record at a position strictly before k: the     *)
(* record being processed never matches itself.                           *)
(* ---------------------------------------------------------------------- *)
RefersBack(k) == trs[k].tr_type \in {"Dispute", "Resolve", "Chargeback"}

\* the lookup of the k-th record, as the arm makes it
LookedUp(k) == get_transaction_with_id(trs[k].tr_id, trs)

C14_LookupStrictlyEarlier ==
    \A k \in 1..i :
        (RefersBack(k) /\ ~BalBefore(k).locked /\ LookedUp(k) # <<>>) =>
            \E m \in 1..(k - 1) : LookedUp(k) = <<trs[m]>>

(* ---------------------------------------------------------------------- *)
(* C15.  Dispute lifecycle: while the pass runs and when it has returned, *)
(* a tx_id is in the tracker exactly when a Dispute of it took effect and *)
(* no Resolve or Chargeback of it took effect since; a Resolve or         *)
(* Chargeback changes an account only when its tx_id is in the tracker;   *)
(* after an effective Resolve or Chargeback the tx_id is absent, however  *)
(* often it was disputed.                                                 *)
(* ---------------------------------------------------------------------- *)
\* the k-th record is a Dispute that moved its amount into held
Disputed(k) ==
    /\ trs[k].tr_type = "Dispute"
    /\ ~BalBefore(k).locked
    /\ Post(k).pc = "run"

\* the history of id over the first n records: is a dispute of it open?
RECURSIVE Open(_, _)
Open(id, n) ==
    IF n = 0 THEN FALSE
    ELSE IF trs[n].tr_id = id /\ Disputed(n) THEN TRUE
    ELSE IF trs[n].tr_id = id /\ Closes(n) /\ ~BalBefore(n).locked /\ Open(id, n - 1)
    THEN FALSE
    ELSE Open(id, n - 1)

Occurrences(id, dis) == Cardinality({n \in 1..Len(dis) : dis[n] = id})

C15_DisputeLifecycle ==
    /\ pc # "panic" => \A id \in TxIds : InTracker(id, disputes) <=> Open(id, i)
    /\ \A k \in 1..i :
          Closes(k) =>
              /\ ~SameAccounts(k) => InTracker(trs[k].tr_id, Pre(k).disputes)
              /\ (InTracker(trs[k].tr_id, Pre(k).disputes) /\ ~BalBefore(k).locked)
                    => ~InTracker(trs[k].tr_id, Post(k).disputes)

\* a tx_id disputed twice was closed by one Resolve or Chargeback
C15_Witness ==
    \E k \in 1..i :
        /\ Closes(k)
        /\ ~BalBefore(k).locked
        /\ Occurrences(trs[k].tr_id, Pre(k).disputes) >= 2

(* ---------------------------------------------------------------------- *)
(* C16.  A Dispute, Resolve or Chargeback of client B that names a        *)
(* transaction recorded for another client A is accepted and changes only *)
(* B's account; any record changes the balances and lock of at most the   *)
(* account of its own client_id.                                          *)
(* ---------------------------------------------------------------------- *)
\* the k-th record is a dispute of another client's earlier transaction
CrossDispute(k) ==
    /\ trs[k].tr_type = "Dispute"
    /\ ~BalBefore(k).locked
    /\ KnownBefore(k)
    /\ Referenced(trs[k].tr_id).client_id # trs[k].client_id
    /\ Referenced(trs[k].tr_id).amount # None

C16_OnlyIssuingClient ==
    \A k \in 1..i :
        /\ \A c \in Clients \ {trs[k].client_id} :
              Balances(Post(k).result, c) = Balances(Pre(k).result, c)
        /\ CrossDispute(k) =>
              /\ Post(k).pc = "run"
              /\ BalAfter(k).available =
                    Minus(BalBefore(k).available, Referenced(trs[k].tr_id).amount[1])
              /\ BalAfter(k).held =
                    Plus(BalBefore(k).held, Referenced(trs[k].tr_id).amount[1])
              /\ InTracker(trs[k].tr_id, Post(k).disputes)

\* client B disputed a deposit of client A, and B's balances moved
C16_Witness ==
    \E k \in 1..i :
        /\ CrossDispute(k)
        /\ Referenced(trs[k].tr_id).tr_type = "Deposit"
        /\ BalAfter(k) # BalBefore(k)
        /\ Balances(Pre(k).result, Referenced(trs[k].tr_id).client_id).available # Amt(0, 0)

(* ---------------------------------------------------------------------- *)
(* C17.  The ordering of Amount is the total lexicographic order on       *)
(* (whole, fraction): exactly one of a < b, a == b, a > b holds; a >= b   *)
(* iff not a < b; a <= b iff not a > b; partial_cmp agrees with them.     *)
(* ---------------------------------------------------------------------- *)
\* (whole, fraction) read as one number: its order is the lexicographic one
Key(a) == a.whole * 65536 + a.decimal

C17_TotalLexicographicOrder ==
    pc = "compared" =>
        LET o == cmp.out[1]
            ka == Key(cmp.lhs)
            kb == Key(cmp.rhs)
        IN  /\ o.lt <=> ka < kb
            /\ o.eq <=> ka = kb
            /\ o.gt <=> ka > kb
            /\ Cardinality({x \in {"lt", "eq", "gt"} : o[x]}) = 1
            /\ o.ge <=> ~o.lt
            /\ o.le <=> ~o.gt
            /\ o.ne <=> ~o.eq
            /\ o.partial_cmp = "Less" <=> o.lt
            /\ o.partial_cmp = "Equal" <=> o.eq
            /\ o.partial_cmp = "Greater" <=> o.gt

\* operands on which the whole parts and the fractions disagree
C17_Witness ==
    /\ pc = "compared"
    /\ cmp.lhs.whole < cmp.rhs.whole
    /\ cmp.lhs.decimal > cmp.rhs.decimal
    /\ cmp.out[1].le

(* ---------------------------------------------------------------------- *)
(* C18.  Prefix determinism: the accounts and the tracker after the first *)
(* k records depend on those k records only, although every lookup is     *)
(* given the whole input vector.  Two inputs that agree on k records give *)
(* the same state after k steps: the state is what a pass over the prefix *)
(* alone, as a whole input, arrives at.                                   *)
(* ---------------------------------------------------------------------- *)
\* one iteration on state st for record rec, the lookups made in vec
StepOf(st, rec, vec) ==
    LET found == handle_account(rec.client_id, st.result)
        accs == IF found = <<>>
                THEN Append(st.result,
                            AccountStatus(rec.client_id, AmountDefault, AmountDefault, FALSE))
                ELSE st.result
        ix == IF found = <<>> THEN Len(st.result) + 1 ELSE found[1]
        acc == accs[ix]
        cand == get_transaction_with_id(rec.tr_id, vec)
        same == Snapshot(accs, st.disputes, "run")
    IN  IF acc.locked \/ rec.tr_type = "Invalid" THEN same
        ELSE IF rec.tr_type = "Deposit"
        THEN IF rec.amount = <<>> THEN Snapshot(accs, st.disputes, "panic")
             ELSE Snapshot([accs EXCEPT ![ix].available = Add(acc.available, rec.amount[1])],
                           st.disputes, "run")
        ELSE IF rec.tr_type = "Withdraw"
        THEN IF rec.amount = <<>> THEN Snapshot(accs, st.disputes, "panic")
             ELSE IF AmountGe(Sub(acc.available, rec.amount[1]), AmountDefault)
             THEN Snapshot([accs EXCEPT ![ix].available = Sub(acc.available, rec.amount[1])],
                           st.disputes, "run")
             ELSE same
        ELSE IF cand = <<>> THEN same
        ELSE IF rec.tr_type = "Dispute"
        THEN IF cand[1].amount = <<>>
             THEN Snapshot(accs, Append(st.disputes, cand[1].tr_id), "panic")
             ELSE Snapshot([accs EXCEPT
                               ![ix].available = Sub(acc.available, cand[1].amount[1]),
                               ![ix].held = Add(acc.held, cand[1].amount[1])],
                           Append(st.disputes, cand[1].tr_id), "run")
        ELSE IF ~is_disputed_transaction(cand[1].tr_id, st.disputes) THEN same
        ELSE IF cand[1].amount = <<>> THEN Snapshot(accs, st.disputes, "panic")
        ELSE IF rec.tr_type = "Resolve"
        THEN Snapshot([accs EXCEPT
                          ![ix].available = Add(acc.available, cand[1].amount[1]),
                          ![ix].held = Sub(acc.held, cand[1].amount[1])],
                      remove_dispute(cand[1].tr_id, st.disputes), "run")
        ELSE Snapshot([accs EXCEPT
                          ![ix].held = Sub(acc.held, cand[1].amount[1]),
                          ![ix].locked = TRUE],
                      remove_dispute(cand[1].tr_id, st.disputes), "run")

\* the pass over vec as the whole input, after n records
RECURSIVE RunOn(_, _)
RunOn(vec, n) ==
    IF n = 0 THEN Snapshot(<<>>, <<>>, "run")
    ELSE LET st == RunOn(vec, n - 1)
         IN  IF st.pc # "run" THEN st ELSE StepOf(st, vec[n], vec)

C18_PrefixDeterminism ==
    trace[i + 1] = RunOn(SubSeq(trs, 1, i), i)

\* a dispute took effect while a record still to come carries the same tx_id
\* with another amount
C18_Witness ==
    \E k \in 1..i : \E m \in (i + 1)..Len(trs) :
        /\ trs[k].tr_type = "Dispute"
        /\ ~BalBefore(k).locked
        /\ BalAfter(k) # BalBefore(k)
        /\ trs[m].tr_id = trs[k].tr_id
        /\ trs[m].amount # None
        /\ trs[m].amount # Referenced(trs[k].tr_id).amount

(* ---------------------------------------------------------------------- *)
(* C19.  Held is never negative: for one client and non-negative amounts  *)
(* with fraction < 10000, after any sequence of Deposit, Withdraw,        *)
(* Dispute, Resolve and Chargeback records held.whole >= 0.               *)
(* ---------------------------------------------------------------------- *)
C19_HeldNonNegative ==
    \A k \in 1..Len(result) : result[k].held.whole >= 0

(* ---------------------------------------------------------------------- *)
(* C20.  Fraction bound: when every input amount has a fraction below      *)
(* 10000, every account's available and held fraction is below 10000 in   *)
(* every state the pass goes through, so no addition of two fractions     *)
(* (balance + balance, balance + input amount) exceeds 65535.             *)
(* ---------------------------------------------------------------------- *)
InputFractionsBounded ==
    \A k \in 1..Len(trs) :
        trs[k].amount # None => trs[k].amount[1].decimal < AMOUNT_PRECISION_LIMITER

FractionsBounded(r) ==
    \A n \in 1..Len(r) :
        /\ r[n].available.decimal < AMOUNT_PRECISION_LIMITER
        /\ r[n].held.decimal < AMOUNT_PRECISION_LIMITER
        /\ ~AddOverflows(r[n].available, r[n].held)
        /\ \A k \in 1..Len(trs) :
               trs[k].amount # None =>
                   /\ ~AddOverflows(r[n].available, trs[k].amount[1])
                   /\ ~AddOverflows(r[n].held, trs[k].amount[1])

C20_FractionBound ==
    InputFractionsBounded =>
        /\ FractionsBounded(result)
        /\ \A s \in 1..Len(trace) : FractionsBounded(trace[s].result)

\* a deposit whose fraction addition carried into the whole part
C20_Witness ==
    /\ InputFractionsBounded
    /\ \E k \in 1..(Len(trace) - 1) :
           /\ trs[k].tr_type = "Deposit"
           /\ trs[k].amount # None
           /\ ~BalBefore(k).locked
           /\ BalBefore(k).available.decimal + trs[k].amount[1].decimal
                  >= AMOUNT_PRECISION_LIMITER
           /\ BalAfter(k).available.decimal < AMOUNT_PRECISION_LIMITER

====
